---- MODULE Spec2Model ----
(***************************************************************************)
(* dotenv_lib: the lexer and the parser of `.env` files (src/src/lib.rs).  *)
(*                                                                         *)
(* A text is a sequence of one-character strings.  process_dot_env lexes   *)
(* the text into one token per character plus a final Eof and runs the     *)
(* token loop of parse_dot_env.  Each arm of the `match token` of the loop *)
(* is an operator from the loop's locals to the locals after the arm and   *)
(* the way the arm leaves the loop body (continue, break or return Err).   *)
(* The state machine reads the input one character at a time: every step   *)
(* chooses the next character of the file, lexes it and runs its arm.      *)
(***************************************************************************)
EXTENDS Integers, Sequences, FiniteSets, TLC

\* ------------------------------------------------------------ bounds

\* Longest input text, in characters.
MaxLen == 6

\* Longest input text over the characters of DeepAlphabet.
MaxDeepLen == 9

\* Longest input text over the characters of KeyAlphabet.
MaxKeyLen == 5

\* Longest value of a map that is serialized, in characters.
MaxValueLen == 2

\* The directories below the root on the longest chain of the filesystem.
MaxDepth == 2

\* ------------------------------------------------------------ characters

NL == "\n"
SQ == "'"
DQ == "\""

\* Characters the lexer maps to EnvToken::Character.
Letters == {"a", "b"}

\* The characters an input text is drawn from: every character class of
\* the lexer is present.
Alphabet == Letters \cup {"=", " ", "#", NL, DQ, SQ}

\* The characters of the longer texts: enough for assignments with quoted
\* values that span lines.
DeepAlphabet == {"a", "=", SQ, NL}

\* Characters of keys that are not letters, and a character no key may
\* hold: the lexer maps them to EnvToken::Character as it does letters.
Digits == {"1"}
Underscore == "_"
Hyphen == "-"

\* The characters of the texts of unquoted assignments whose keys hold
\* letters and other characters.
KeyAlphabet == {"a", "=", NL} \cup Digits \cup {Underscore, Hyphen}

\* ------------------------------------------------------------ tokens

TokCharacter(c) == [kind |-> "Character", c |-> c]
TokAssignmentOperator == [kind |-> "AssignmentOperator"]
TokNewLine == [kind |-> "NewLine"]
TokEof == [kind |-> "Eof"]
TokComment == [kind |-> "Comment"]
TokDoubleQuoteMark == [kind |-> "DoubleQuoteMark"]
TokSingleQuoteMark == [kind |-> "SingleQuoteMark"]
TokWhitespace == [kind |-> "Whitespace"]

\* The closure of lex_dot_env: the token of one character.
LexChar(c) ==
    CASE c = "=" -> TokAssignmentOperator
      [] c = " " -> TokWhitespace
      [] c = "#" -> TokComment
      [] c = NL -> TokNewLine
      [] c = DQ -> TokDoubleQuoteMark
      [] c = SQ -> TokSingleQuoteMark
      [] OTHER -> TokCharacter(c)

\* A lexer that chains no Eof after the tokens of the characters.
lex_dot_env_NoEof(file_contents) ==
    [i \in 1..Len(file_contents) |-> LexChar(file_contents[i])]

\* lex_dot_env: the tokens of the characters, in order, chained with Eof.
lex_dot_env(file_contents) ==
    [i \in 1..Len(file_contents) |-> LexChar(file_contents[i])] \o <<TokEof>>

\* ------------------------------------------------------------ errors

UnexpectedToken(expected, found, line, character) ==
    [variant |-> "UnexpectedToken", expected |-> expected, found |-> found,
     line |-> line, character |-> character]
ExpectedValueButFoundAssignment(line, character) ==
    [variant |-> "ExpectedValueButFoundAssignment", line |-> line,
     character |-> character]
MissingKey(line) == [variant |-> "MissingKey", line |-> line]
MissingValue(line) == [variant |-> "MissingValue", line |-> line]
FoundOnlyKey(line) == [variant |-> "FoundOnlyKey", line |-> line]
UnclosedValue(line) == [variant |-> "UnclosedValue", line |-> line]

\* ------------------------------------------------------------ results

\* Result<EnvMap, EnvError>, and Pending while the loop is still running.
Pending == [kind |-> "Pending"]
Ok(map) == [kind |-> "Ok", map |-> map]
Err(error) == [kind |-> "Err", error |-> error]

\* Option<T>
None == [kind |-> "None"]
Some(value) == [kind |-> "Some", value |-> value]

\* A panic of the thread: nothing is returned.
Panic == [kind |-> "Panic"]

\* FindEnvError, and its From conversions for the `?` of find_env.
Io(source) == [variant |-> "Io", source |-> source]
Env(source) == [variant |-> "Env", source |-> source]
NotFound(msg) == [variant |-> "NotFound", msg |-> msg]

\* A From<EnvError> that loses the error of the parser.
From_EnvError_NotFound(value) == NotFound("Env file not found")

From_IOError(value) == Io(value)
From_EnvError(value) == Env(value)

\* Display for EnvError: the message, as the pieces write! puts together.
EnvError_fmt(err) ==
    CASE err.variant = "UnexpectedToken" ->
            <<"Unexpected token: expected ", err.expected, " but found '", err.found,
              "' at line ", err.line, ", character ", err.character>>
      [] err.variant = "ExpectedValueButFoundAssignment" ->
            <<"Expected value but found assignment operator at line ", err.line,
              ", character ", err.character>>
      [] err.variant = "MissingKey" -> <<"Key missing on line ", err.line>>
      [] err.variant = "MissingValue" -> <<"Value missing on line ", err.line>>
      [] err.variant = "FoundOnlyKey" ->
            <<"Only found key on line ", err.line,
              ", expected assignment operator and value">>
      [] err.variant = "UnclosedValue" ->
            <<"Key or value was not closed from line ", err.line>>

\* Display for FindEnvError: a prefix, then the Display of what it wraps.
FindEnvError_fmt(err) ==
    CASE err.variant = "Env" -> <<"I/O Error: ">> \o EnvError_fmt(err.source)
      [] err.variant = "Io" -> <<"Env parsing error: ", err.source>>
      [] err.variant = "NotFound" -> <<"FindEnv error: ", err.msg>>

\* ------------------------------------------------------------ EnvMap

\* EnvMap::new()
EmptyMap == [k \in {} |-> <<>>]

\* HashMap::insert: the entry of key is replaced or added.
Insert(map, key, value) ==
    [k \in (DOMAIN map) \cup {key} |-> IF k = key THEN value ELSE map[k]]

\* ------------------------------------------------------------ locals

\* The locals of parse_dot_env as the loop is entered.  The counters are
\* u64 and grow by one per token at most: no text of the lengths checked
\* here wraps them.
InitLocals ==
    [new_env_map |-> EmptyMap,
     line_counter |-> 1,
     character_counter |-> 1,
     current_key |-> <<>>,
     current_value |-> <<>>,
     expecting_key |-> TRUE,
     expecting_value |-> FALSE,
     in_a_comment |-> FALSE,
     encountered_assignment |-> FALSE,
     in_single_quoted_string |-> FALSE,
     in_double_quoted_string |-> FALSE]

\* How an arm leaves the loop body.
Continue(l) == [locals |-> l, ret |-> Pending]
Return(l, error) == [locals |-> l, ret |-> Err(error)]
Break(l) == [locals |-> l, ret |-> Ok(l.new_env_map)]

\* ------------------------------------------------------------ arms

\* EnvToken::Character(c)
CharacterArm(l, c) ==
    LET l1 == [l EXCEPT !.character_counter = @ + 1] IN
    IF ~l1.in_a_comment
    THEN IF l1.expecting_key
         THEN Continue([l1 EXCEPT !.current_key = Append(@, c)])
         ELSE IF l1.expecting_value
         THEN Continue([l1 EXCEPT !.current_value = Append(@, c)])
         ELSE Return(l1, UnexpectedToken("comment of new line", c,
                                         l1.line_counter, l1.character_counter))
    ELSE Continue(l1)

\* EnvToken::AssignmentOperator
AssignmentOperatorArm(l) ==
    IF (l.in_single_quoted_string \/ l.in_double_quoted_string) /\ l.expecting_value
    THEN Continue([l EXCEPT !.current_value = Append(@, "=")])
    ELSE IF ~l.expecting_key /\ l.current_value = <<>>
    THEN Return(l, ExpectedValueButFoundAssignment(l.line_counter, l.character_counter))
    ELSE IF /\ l.current_key # <<>>
            /\ l.current_value # <<>>
            /\ l.encountered_assignment
            /\ ~l.in_a_comment
    THEN Return(l, ExpectedValueButFoundAssignment(l.line_counter, l.character_counter))
    ELSE Continue([l EXCEPT !.encountered_assignment = ~l.in_a_comment,
                            !.expecting_key = FALSE,
                            !.expecting_value = TRUE,
                            !.character_counter = @ + 1])

\* EnvToken::Whitespace
WhitespaceArm(l) ==
    IF l.in_single_quoted_string \/ l.in_double_quoted_string
    THEN IF l.expecting_value
         THEN Continue([l EXCEPT !.current_value = Append(@, " ")])
         ELSE Continue(l)
    ELSE LET l1 == [l EXCEPT !.character_counter = @ + 1] IN
         IF l1.in_a_comment
         THEN Continue(l1)
         ELSE IF l1.current_key = <<>> /\ l1.expecting_key
         THEN Return(l1, UnexpectedToken("key or comment symbol", " ",
                                         l1.line_counter, l1.character_counter))
         ELSE IF l1.expecting_key
         THEN Return(l1, UnexpectedToken("key or comment symbol", " ",
                                         l1.line_counter, l1.character_counter))
         ELSE Continue([l1 EXCEPT !.expecting_value = FALSE])

\* A Comment arm that starts a comment inside quotes too.
CommentArm_InQuotes(l) == Continue([l EXCEPT !.in_a_comment = TRUE])

\* EnvToken::Comment
CommentArm(l) ==
    IF (l.in_single_quoted_string \/ l.in_double_quoted_string) /\ l.expecting_value
    THEN Continue([l EXCEPT !.current_value = Append(@, "#")])
    ELSE Continue([l EXCEPT !.in_a_comment = TRUE])

\* A reset that leaves expecting_value as it is.
NewLineReset_KeepExpectingValue(l) ==
    [l EXCEPT !.expecting_key = TRUE,
              !.current_key = <<>>,
              !.current_value = <<>>,
              !.in_a_comment = FALSE,
              !.line_counter = @ + 1,
              !.character_counter = 0,
              !.encountered_assignment = FALSE]

\* A reset that leaves in_a_comment as it is.
NewLineReset_KeepComment(l) ==
    [l EXCEPT !.expecting_key = TRUE,
              !.expecting_value = FALSE,
              !.current_key = <<>>,
              !.current_value = <<>>,
              !.line_counter = @ + 1,
              !.character_counter = 0,
              !.encountered_assignment = FALSE]

\* The reset both ends of the NewLine arm make: a key is expected again on
\* the next line.
NewLineReset(l) ==
    [l EXCEPT !.expecting_key = TRUE,
              !.expecting_value = FALSE,
              !.current_key = <<>>,
              !.current_value = <<>>,
              !.in_a_comment = FALSE,
              !.line_counter = @ + 1,
              !.character_counter = 0,
              !.encountered_assignment = FALSE]

\* A NewLine arm without the checks of the value: a line with a key is
\* stored.
NewLineArm_NoValueCheck(l) ==
    IF l.in_single_quoted_string \/ l.in_double_quoted_string
    THEN Continue([l EXCEPT !.current_value = Append(@, NL)])
    ELSE IF (l.current_key = <<>> /\ l.current_value = <<>>) /\ ~l.encountered_assignment
    THEN Continue(NewLineReset(l))
    ELSE IF l.current_key = <<>>
    THEN Return(l, MissingKey(l.line_counter))
    ELSE Continue(NewLineReset(
             [l EXCEPT !.new_env_map = Insert(@, l.current_key, l.current_value)]))

\* A NewLine arm that counts the newlines inside quotes as lines too.
NewLineArm_CountInQuotes(l) ==
    IF l.in_single_quoted_string \/ l.in_double_quoted_string
    THEN Continue([l EXCEPT !.current_value = Append(@, NL),
                            !.line_counter = @ + 1])
    ELSE IF (l.current_key = <<>> /\ l.current_value = <<>>) /\ ~l.encountered_assignment
    THEN Continue(NewLineReset(l))
    ELSE IF l.encountered_assignment /\ l.current_key = <<>>
    THEN Return(l, MissingKey(l.line_counter))
    ELSE IF l.encountered_assignment /\ l.current_value = <<>>
    THEN Return(l, MissingValue(l.line_counter))
    ELSE IF (l.current_key # <<>> /\ l.current_value = <<>>) /\ ~l.encountered_assignment
    THEN Return(l, FoundOnlyKey(l.line_counter))
    ELSE IF l.current_key = <<>> /\ l.current_value # <<>>
    THEN Return(l, MissingKey(l.line_counter))
    ELSE IF l.current_key # <<>> /\ l.current_value = <<>>
    THEN Return(l, MissingValue(l.line_counter))
    ELSE IF l.current_key # <<>> /\ l.current_value # <<>>
    THEN Continue(NewLineReset(
             [l EXCEPT !.new_env_map = Insert(@, l.current_key, l.current_value)]))
    ELSE Continue(NewLineReset(l))

\* EnvToken::NewLine
NewLineArm(l) ==
    IF l.in_single_quoted_string \/ l.in_double_quoted_string
    THEN Continue([l EXCEPT !.current_value = Append(@, NL)])
    ELSE IF (l.current_key = <<>> /\ l.current_value = <<>>) /\ ~l.encountered_assignment
    THEN Continue(NewLineReset(l))
    ELSE IF l.encountered_assignment /\ l.current_key = <<>>
    THEN Return(l, MissingKey(l.line_counter))
    ELSE IF l.encountered_assignment /\ l.current_value = <<>>
    THEN Return(l, MissingValue(l.line_counter))
    ELSE IF (l.current_key # <<>> /\ l.current_value = <<>>) /\ ~l.encountered_assignment
    THEN Return(l, FoundOnlyKey(l.line_counter))
    ELSE IF l.current_key = <<>> /\ l.current_value # <<>>
    THEN Return(l, MissingKey(l.line_counter))
    ELSE IF l.current_key # <<>> /\ l.current_value = <<>>
    THEN Return(l, MissingValue(l.line_counter))
    ELSE IF l.current_key # <<>> /\ l.current_value # <<>>
    THEN Continue(NewLineReset(
             [l EXCEPT !.new_env_map = Insert(@, l.current_key, l.current_value)]))
    ELSE Continue(NewLineReset(l))

\* EnvToken::Eof
EofArm(l) ==
    IF l.in_single_quoted_string \/ l.in_double_quoted_string
    THEN Return(l, UnclosedValue(l.line_counter))
    ELSE LET l1 == IF l.current_key # <<>> /\ l.current_value # <<>>
                   THEN [l EXCEPT !.new_env_map =
                                     Insert(@, l.current_key, l.current_value)]
                   ELSE l
         IN
         IF l1.current_key = <<>> /\ l1.current_value # <<>>
         THEN Return(l1, MissingKey(l1.line_counter))
         ELSE IF l1.current_key # <<>> /\ l1.current_value = <<>>
         THEN Return(l1, MissingValue(l1.line_counter))
         ELSE Break(l1)

\* A SingleQuoteMark arm without the test of the value buffer: a quote may
\* open after characters of an unquoted value.
SingleQuoteMarkArm_AfterValue(l) ==
    IF l.in_double_quoted_string
    THEN IF l.expecting_key
         THEN Return(l, UnexpectedToken("key or assignment operator",
                                        "single quotation mark",
                                        l.line_counter, l.character_counter))
         ELSE Continue([l EXCEPT !.current_value = Append(@, SQ)])
    ELSE IF l.in_single_quoted_string
    THEN Continue([l EXCEPT !.in_single_quoted_string = FALSE,
                            !.expecting_value = FALSE])
    ELSE IF l.expecting_key
    THEN Return(l, UnexpectedToken("key or assignment operator",
                                   "single quote mark",
                                   l.line_counter, l.character_counter))
    ELSE Continue([l EXCEPT !.in_single_quoted_string = TRUE])

\* EnvToken::SingleQuoteMark
SingleQuoteMarkArm(l) ==
    IF l.in_double_quoted_string
    THEN IF l.expecting_key
         THEN Return(l, UnexpectedToken("key or assignment operator",
                                        "single quotation mark",
                                        l.line_counter, l.character_counter))
         ELSE Continue([l EXCEPT !.current_value = Append(@, SQ)])
    ELSE IF l.in_single_quoted_string
    THEN Continue([l EXCEPT !.in_single_quoted_string = FALSE,
                            !.expecting_value = FALSE])
    ELSE IF l.expecting_key
    THEN Return(l, UnexpectedToken("key or assignment operator",
                                   "single quote mark",
                                   l.line_counter, l.character_counter))
    ELSE IF l.current_value # <<>>
    THEN Return(l, UnexpectedToken("value, whitespace, newline, or comment",
                                   "single quotation mark",
                                   l.line_counter, l.character_counter))
    ELSE Continue([l EXCEPT !.in_single_quoted_string = TRUE])

\* A DoubleQuoteMark arm without the test of expecting_key: a quote may
\* open where a key is expected.
DoubleQuoteMarkArm_QuotedKey(l) ==
    IF l.in_single_quoted_string /\ l.expecting_value
    THEN Continue([l EXCEPT !.current_value = Append(@, DQ)])
    ELSE IF l.in_double_quoted_string
    THEN Continue([l EXCEPT !.in_double_quoted_string = FALSE,
                            !.expecting_value = FALSE])
    ELSE IF l.current_value # <<>>
    THEN Return(l, UnexpectedToken("value, whitespace, newline, or comment",
                                   "double quotation mark",
                                   l.line_counter, l.character_counter))
    ELSE Continue([l EXCEPT !.in_double_quoted_string = TRUE])

\* EnvToken::DoubleQuoteMark
DoubleQuoteMarkArm(l) ==
    IF l.in_single_quoted_string /\ l.expecting_key
    THEN Return(l, UnexpectedToken("key or assignment operator",
                                   "double quote mark",
                                   l.line_counter, l.character_counter))
    ELSE IF l.in_single_quoted_string /\ l.expecting_value
    THEN Continue([l EXCEPT !.current_value = Append(@, DQ)])
    ELSE IF l.in_double_quoted_string
    THEN Continue([l EXCEPT !.in_double_quoted_string = FALSE,
                            !.expecting_value = FALSE])
    ELSE IF l.expecting_key
    THEN Return(l, UnexpectedToken("key or assignment operator",
                                   "double quote mark",
                                   l.line_counter, l.character_counter))
    ELSE IF l.current_value # <<>>
    THEN Return(l, UnexpectedToken("value, whitespace, newline, or comment",
                                   "double quotation mark",
                                   l.line_counter, l.character_counter))
    ELSE Continue([l EXCEPT !.in_double_quoted_string = TRUE])

\* The body of `for token in tokens`: the arm of the token.
MatchToken(l, token) ==
    CASE token.kind = "Character" -> CharacterArm(l, token.c)
      [] token.kind = "AssignmentOperator" -> AssignmentOperatorArm(l)
      [] token.kind = "Whitespace" -> WhitespaceArm(l)
      [] token.kind = "Comment" -> CommentArm(l)
      [] token.kind = "NewLine" -> NewLineArm(l)
      [] token.kind = "Eof" -> EofArm(l)
      [] token.kind = "SingleQuoteMark" -> SingleQuoteMarkArm(l)
      [] token.kind = "DoubleQuoteMark" -> DoubleQuoteMarkArm(l)

\* A loop that goes on to the next token after an arm has returned an
\* error, and returns what the last arm left.
RECURSIVE Loop_NoReturn(_, _, _)
Loop_NoReturn(l, tokens, i) ==
    IF i > Len(tokens)
    THEN Continue(l)
    ELSE LET r == MatchToken(l, tokens[i]) IN
         IF i < Len(tokens) /\ r.ret.kind # "Ok"
         THEN Loop_NoReturn(r.locals, tokens, i + 1)
         ELSE r

\* The `for token in tokens` loop from locals l over the tokens from index
\* i on: it is left by the first arm that returns or breaks, or with the
\* last token.
RECURSIVE Loop(_, _, _)
Loop(l, tokens, i) ==
    IF i > Len(tokens)
    THEN Continue(l)
    ELSE LET r == MatchToken(l, tokens[i]) IN
         IF r.ret = Pending
         THEN Loop(r.locals, tokens, i + 1)
         ELSE r

\* parse_dot_env: what the loop returned, or Ok(new_env_map) after it.
parse_dot_env(tokens) ==
    LET r == Loop(InitLocals, tokens, 1) IN
    IF r.ret = Pending THEN Ok(r.locals.new_env_map) ELSE r.ret

process_dot_env(file_contents) == parse_dot_env(lex_dot_env(file_contents))

\* ------------------------------------------------------------ state

VARIABLES
    file_contents,            \* the characters of the input read so far
    tokens,                   \* the tokens the loop has taken so far
    new_env_map,
    line_counter,
    character_counter,
    current_key,
    current_value,
    expecting_key,
    expecting_value,
    in_a_comment,
    encountered_assignment,
    in_single_quoted_string,
    in_double_quoted_string,
    result,                   \* Pending in the loop, then what is returned
    hash_map,                 \* the map given to serialize_new_env
    file,                     \* the text of the file file_name, when written
    serialize_result,         \* Pending, then what serialize_new_env returned
    fs,                       \* the directories of the filesystem
    cwd,                      \* std::env::current_dir(), None when it fails
    directory_to_search,      \* the argument of find_env
    current_dir_path_buf,     \* Pending, then the directory of the running
                              \* find_env_string
    find_result,              \* Pending, then what find_env_string returned
    contents,                 \* Pending, then what fs::read_to_string returned
    found_path_result,        \* Pending, then what find_env returned
    message                   \* Pending, then the Display of the error returned

\* The state of a call of process_dot_env.
parseVars ==
    <<file_contents, tokens, new_env_map, line_counter, character_counter,
      current_key, current_value, expecting_key, expecting_value, in_a_comment,
      encountered_assignment, in_single_quoted_string, in_double_quoted_string,
      result>>

\* The state of a call of serialize_new_env.
serializeVars == <<hash_map, file, serialize_result>>

\* The state of a call of find_env.
findVars ==
    <<fs, cwd, directory_to_search, current_dir_path_buf, find_result, contents,
      found_path_result, message>>

vars == <<parseVars, serializeVars, findVars>>

\* The locals of the running parse_dot_env.
Locals ==
    [new_env_map |-> new_env_map,
     line_counter |-> line_counter,
     character_counter |-> character_counter,
     current_key |-> current_key,
     current_value |-> current_value,
     expecting_key |-> expecting_key,
     expecting_value |-> expecting_value,
     in_a_comment |-> in_a_comment,
     encountered_assignment |-> encountered_assignment,
     in_single_quoted_string |-> in_single_quoted_string,
     in_double_quoted_string |-> in_double_quoted_string]

\* An arm has run: its locals are the locals, and what it returned, if it
\* returned, is the result.
Apply(r) ==
    /\ new_env_map' = r.locals.new_env_map
    /\ line_counter' = r.locals.line_counter
    /\ character_counter' = r.locals.character_counter
    /\ current_key' = r.locals.current_key
    /\ current_value' = r.locals.current_value
    /\ expecting_key' = r.locals.expecting_key
    /\ expecting_value' = r.locals.expecting_value
    /\ in_a_comment' = r.locals.in_a_comment
    /\ encountered_assignment' = r.locals.encountered_assignment
    /\ in_single_quoted_string' = r.locals.in_single_quoted_string
    /\ in_double_quoted_string' = r.locals.in_double_quoted_string
    /\ result' = r.ret

\* The loop is running and takes the token of the next character c of a
\* file of at most n characters.
Read(c, n) ==
    /\ result = Pending
    /\ Len(file_contents) < n
    /\ file_contents' = Append(file_contents, c)
    /\ tokens' = Append(tokens, LexChar(c))
    /\ UNCHANGED <<serializeVars, findVars>>

\* parse_dot_env is entered with no token taken.
InitParse ==
    /\ file_contents = <<>>
    /\ tokens = <<>>
    /\ new_env_map = InitLocals.new_env_map
    /\ line_counter = InitLocals.line_counter
    /\ character_counter = InitLocals.character_counter
    /\ current_key = InitLocals.current_key
    /\ current_value = InitLocals.current_value
    /\ expecting_key = InitLocals.expecting_key
    /\ expecting_value = InitLocals.expecting_value
    /\ in_a_comment = InitLocals.in_a_comment
    /\ encountered_assignment = InitLocals.encountered_assignment
    /\ in_single_quoted_string = InitLocals.in_single_quoted_string
    /\ in_double_quoted_string = InitLocals.in_double_quoted_string
    /\ result = Pending

\* No map is serialized.
NoSerialize ==
    /\ hash_map = EmptyMap
    /\ file = None
    /\ serialize_result = Pending

\* No file is searched for: the filesystem has no directory.
NoFind ==
    /\ fs = [d \in {} |-> <<>>]
    /\ cwd = None
    /\ directory_to_search = None
    /\ current_dir_path_buf = Pending
    /\ find_result = Pending
    /\ contents = Pending
    /\ found_path_result = Pending
    /\ message = Pending

\* A text is parsed.
Init ==
    /\ InitParse
    /\ NoSerialize
    /\ NoFind

\* process_dot_env runs on a text: the lexer, then the whole loop.
Process(text) ==
    /\ file_contents' = text
    /\ tokens' = lex_dot_env(text)
    /\ Apply([locals |-> Loop(InitLocals, lex_dot_env(text), 1).locals,
              ret |-> process_dot_env(text)])

\* ------------------------------------------------------------ actions

\* One action per arm of the match, for the next character drawn from the
\* characters A of a file of at most n characters.

CharacterOf(A, n) ==
    \E c \in A :
        /\ LexChar(c).kind = "Character"
        /\ Read(c, n)
        /\ Apply(CharacterArm(Locals, LexChar(c).c))

AssignmentOperatorOf(A, n) ==
    \E c \in A :
        /\ LexChar(c) = TokAssignmentOperator
        /\ Read(c, n)
        /\ Apply(AssignmentOperatorArm(Locals))

WhitespaceOf(A, n) ==
    \E c \in A :
        /\ LexChar(c) = TokWhitespace
        /\ Read(c, n)
        /\ Apply(WhitespaceArm(Locals))

CommentOf(A, n) ==
    \E c \in A :
        /\ LexChar(c) = TokComment
        /\ Read(c, n)
        /\ Apply(CommentArm(Locals))

NewLineOf(A, n) ==
    \E c \in A :
        /\ LexChar(c) = TokNewLine
        /\ Read(c, n)
        /\ Apply(NewLineArm(Locals))

SingleQuoteMarkOf(A, n) ==
    \E c \in A :
        /\ LexChar(c) = TokSingleQuoteMark
        /\ Read(c, n)
        /\ Apply(SingleQuoteMarkArm(Locals))

DoubleQuoteMarkOf(A, n) ==
    \E c \in A :
        /\ LexChar(c) = TokDoubleQuoteMark
        /\ Read(c, n)
        /\ Apply(DoubleQuoteMarkArm(Locals))

\* The file has no more characters: the token chained after them is taken.
Eof ==
    /\ result = Pending
    /\ file_contents' = file_contents
    /\ tokens' = Append(tokens, TokEof)
    /\ Apply(EofArm(Locals))
    /\ UNCHANGED <<serializeVars, findVars>>

Character == CharacterOf(Alphabet, MaxLen)
AssignmentOperator == AssignmentOperatorOf(Alphabet, MaxLen)
Whitespace == WhitespaceOf(Alphabet, MaxLen)
Comment == CommentOf(Alphabet, MaxLen)
NewLine == NewLineOf(Alphabet, MaxLen)
SingleQuoteMark == SingleQuoteMarkOf(Alphabet, MaxLen)
DoubleQuoteMark == DoubleQuoteMarkOf(Alphabet, MaxLen)

Next ==
    \/ Character
    \/ AssignmentOperator
    \/ Whitespace
    \/ Comment
    \/ NewLine
    \/ SingleQuoteMark
    \/ DoubleQuoteMark
    \/ Eof

\* Every text of at most MaxLen characters of Alphabet.
Spec == Init /\ [][Next]_vars

DeepCharacter == CharacterOf(DeepAlphabet, MaxDeepLen)
DeepAssignmentOperator == AssignmentOperatorOf(DeepAlphabet, MaxDeepLen)
DeepNewLine == NewLineOf(DeepAlphabet, MaxDeepLen)
DeepSingleQuoteMark == SingleQuoteMarkOf(DeepAlphabet, MaxDeepLen)

DeepNext ==
    \/ DeepCharacter
    \/ DeepAssignmentOperator
    \/ DeepNewLine
    \/ DeepSingleQuoteMark
    \/ Eof

\* Every text of at most MaxDeepLen characters of DeepAlphabet.
DeepSpec == Init /\ [][DeepNext]_vars

KeyCharacter == CharacterOf(KeyAlphabet, MaxKeyLen)
KeyAssignmentOperator == AssignmentOperatorOf(KeyAlphabet, MaxKeyLen)
KeyNewLine == NewLineOf(KeyAlphabet, MaxKeyLen)

KeyNext ==
    \/ KeyCharacter
    \/ KeyAssignmentOperator
    \/ KeyNewLine
    \/ Eof

\* Every text of at most MaxKeyLen characters of KeyAlphabet.
KeySpec == Init /\ [][KeyNext]_vars

\* ------------------------------------------------------------ serializer

\* format!("{}={}\n", key, value)
FormatEntry(key, value) == key \o <<"=">> \o value \o <<NL>>

\* hash_map.iter(): the keys of the map once each, in any order.
Iterations(map) ==
    {order \in [1..Cardinality(DOMAIN map) -> DOMAIN map] :
        \A i, j \in DOMAIN order : order[i] = order[j] => i = j}

\* try_for_each over the entries in an order: the lines written.
RECURSIVE WriteAll(_, _)
WriteAll(map, order) ==
    IF order = <<>>
    THEN <<>>
    ELSE FormatEntry(Head(order), map[Head(order)]) \o WriteAll(map, Tail(order))

\* The texts of at most n characters of A.
RECURSIVE Texts(_, _)
Texts(A, n) ==
    IF n = 0
    THEN {<<>>}
    ELSE LET shorter == Texts(A, n - 1) IN
         shorter \cup {Append(t, c) : t \in shorter, c \in A}

\* The keys and the characters of the values of the maps serialized: a
\* letter, a space, and a `=` that no value of a round trip holds.
SerializedKeys == {<<"a">>, <<"b">>}
ValueAlphabet == {"a", " ", "="}
SerializedMaps ==
    UNION {[D -> Texts(ValueAlphabet, MaxValueLen)] : D \in SUBSET SerializedKeys}

\* A map is given to serialize_new_env; the text written is then parsed.
InitSerialize ==
    /\ InitParse
    /\ hash_map \in SerializedMaps
    /\ file = None
    /\ serialize_result = Pending
    /\ NoFind

\* serialize_new_env returns Ok: the file holds one line per entry.
serialize_new_env ==
    /\ serialize_result = Pending
    /\ \E order \in Iterations(hash_map) : file' = Some(WriteAll(hash_map, order))
    /\ serialize_result' = Ok("serialized")
    /\ UNCHANGED <<hash_map, parseVars, findVars>>

\* File::create, write_all or flush fails: serialize_new_env returns the
\* io::Error, and what the file holds is not known.
serialize_new_env_Err ==
    /\ serialize_result = Pending
    /\ serialize_result' = Err("io::Error")
    /\ UNCHANGED <<hash_map, file, parseVars, findVars>>

\* process_dot_env on the text of the file that was written.
process_serialized ==
    /\ serialize_result.kind = "Ok"
    /\ result = Pending
    /\ Process(file.value)
    /\ UNCHANGED <<serializeVars, findVars>>

SerializeNext ==
    \/ serialize_new_env
    \/ serialize_new_env_Err
    \/ process_serialized

\* Every map of SerializedMaps is serialized and parsed again.
SerializeSpec == InitSerialize /\ [][SerializeNext]_vars

\* ------------------------------------------------------------ paths

\* A file name is a sequence of characters; one character stands for a
\* byte sequence that is not UTF-8, which to_string_lossy replaces.
InvalidByte == "0xFF"
Replacement == "U+FFFD"
EnvSuffix == <<".", "e", "n", "v">>

\* str::ends_with
ends_with(name, suffix) ==
    /\ Len(name) >= Len(suffix)
    /\ SubSeq(name, Len(name) - Len(suffix) + 1, Len(name)) = suffix

\* A path: absolute or relative, and its components from the outermost.
\* "/" and "" are the paths without components.
Path(absolute, components) == [absolute |-> absolute, components |-> components]

\* Path::parent: the path without its last component; None for "/" and "".
parent(path) ==
    IF path.components = <<>>
    THEN None
    ELSE Some(Path(path.absolute, SubSeq(path.components, 1, Len(path.components) - 1)))

\* Path::to_string_lossy().into_owned(): every invalid byte sequence is
\* replaced by U+FFFD.
to_string_lossy(path) ==
    Path(path.absolute,
         [i \in DOMAIN path.components |->
            [j \in DOMAIN path.components[i] |->
               IF path.components[i][j] = InvalidByte
               THEN Replacement
               ELSE path.components[i][j]]])

\* PathBuf::from(String): the path the string spells.
PathBuf_from(string) == string

\* The directory a path names for the system: a relative path is taken
\* from the current directory, and "" names nothing.
Resolve(path) ==
    IF path.absolute
    THEN Some(path.components)
    ELSE IF path.components = <<>> \/ cwd = None
    THEN None
    ELSE Some(cwd.value.components \o path.components)

\* fs::read_dir: the entries of a directory that exists and can be read.
read_dir(path) ==
    LET dir == Resolve(path) IN
    IF dir # None /\ dir.value \in DOMAIN fs /\ fs[dir.value].readable
    THEN Ok(fs[dir.value].entries)
    ELSE Err("io::Error")

\* entry.path(): the path given to read_dir joined with the name.
EntryPath(path, entry) == Path(path.absolute, Append(path.components, entry.name))

\* The predicate of `find`: is_file and a name that ends with ".env", on
\* the entries of a directory that was read.
EnvEntries(path) ==
    IF read_dir(path).kind = "Ok"
    THEN {entry \in read_dir(path).map : entry.is_file /\ ends_with(entry.name, EnvSuffix)}
    ELSE {}

\* The entries a directory may hold: a regular file *.env, and a directory
\* .env with a regular file env.
EnvFile == [name |-> <<"a">> \o EnvSuffix, is_file |-> TRUE]
Decoys == {[name |-> EnvSuffix, is_file |-> FALSE],
           [name |-> <<"e", "n", "v">>, is_file |-> TRUE]}
DirStates ==
    {[readable |-> FALSE, entries |-> {}]} \cup
    {[readable |-> TRUE, entries |-> E] :
        E \in {{}, {EnvFile}, Decoys, {EnvFile} \cup Decoys}}

\* The filesystems: a chain of MaxDepth directories below the root, the
\* first with a UTF-8 name or not.
ChainOf(name) == [i \in 1..MaxDepth |-> IF i = 1 THEN name ELSE <<"e">>]
DirectoriesOf(name) == {SubSeq(ChainOf(name), 1, k) : k \in 0..MaxDepth}
Filesystems ==
    UNION {[DirectoriesOf(name) -> DirStates] : name \in {<<"d">>, <<InvalidByte>>}}

\* The texts a file that is read may hold.
FileTexts == {<<"a", "=", "b", NL>>, <<"a", "=">>, <<>>}

\* The arguments find_env may be given in a filesystem from a current
\* directory: nothing, or a String that names a directory by its absolute
\* path or by its path from the current directory.
Arguments(filesystem, current) ==
    LET absolute == {Path(TRUE, d) : d \in DOMAIN filesystem}
        relative == IF current = None
                    THEN {}
                    ELSE {Path(FALSE, SubSeq(d, Len(current.value.components) + 1, Len(d))) :
                            d \in {e \in DOMAIN filesystem :
                                     /\ Len(e) > Len(current.value.components)
                                     /\ SubSeq(e, 1, Len(current.value.components))
                                           = current.value.components}}
    IN  {None} \cup {Some(p) : p \in {q \in absolute \cup relative : to_string_lossy(q) = q}}

\* ------------------------------------------------------------ locator

\* find_env is called in a filesystem, from a current directory.
InitFind ==
    /\ InitParse
    /\ NoSerialize
    /\ fs \in Filesystems
    /\ cwd \in {None} \cup {Some(Path(TRUE, d)) : d \in DOMAIN fs}
    /\ directory_to_search \in Arguments(fs, cwd)
    /\ current_dir_path_buf = Pending
    /\ find_result = Pending
    /\ contents = Pending
    /\ found_path_result = Pending
    /\ message = Pending

\* find_env calls find_env_string: the directory given, or the current one.
find_env_string_enter ==
    /\ current_dir_path_buf = Pending
    /\ find_result = Pending
    /\ directory_to_search # None \/ cwd # None
    /\ current_dir_path_buf' =
          IF directory_to_search # None
          THEN PathBuf_from(directory_to_search.value)
          ELSE cwd.value
    /\ UNCHANGED <<message, fs, cwd, directory_to_search, find_result, contents,
                   found_path_result, parseVars, serializeVars>>

\* std::env::current_dir() fails: the expect panics.
find_env_string_panic ==
    /\ current_dir_path_buf = Pending
    /\ find_result = Pending
    /\ directory_to_search = None /\ cwd = None
    /\ find_result' = Panic
    /\ UNCHANGED <<message, fs, cwd, directory_to_search, current_dir_path_buf, contents,
                   found_path_result, parseVars, serializeVars>>

\* The directory was read and `find` has an entry: its path is returned.
find_env_string_found ==
    /\ current_dir_path_buf # Pending
    /\ find_result = Pending
    /\ \E entry \in EnvEntries(current_dir_path_buf) :
          find_result' = Some(to_string_lossy(EntryPath(current_dir_path_buf, entry)))
    /\ UNCHANGED <<message, fs, cwd, directory_to_search, current_dir_path_buf, contents,
                   found_path_result, parseVars, serializeVars>>

\* Nothing was found and the directory has a parent: find_env_string is
\* called on the String of the parent.
find_env_string_parent ==
    /\ current_dir_path_buf # Pending
    /\ find_result = Pending
    /\ EnvEntries(current_dir_path_buf) = {}
    /\ parent(current_dir_path_buf) # None
    /\ current_dir_path_buf' =
          PathBuf_from(to_string_lossy(parent(current_dir_path_buf).value))
    /\ UNCHANGED <<message, fs, cwd, directory_to_search, find_result, contents,
                   found_path_result, parseVars, serializeVars>>

\* Nothing was found and the directory has no parent: None is returned.
find_env_string_none ==
    /\ current_dir_path_buf # Pending
    /\ find_result = Pending
    /\ EnvEntries(current_dir_path_buf) = {}
    /\ parent(current_dir_path_buf) = None
    /\ find_result' = None
    /\ UNCHANGED <<message, fs, cwd, directory_to_search, current_dir_path_buf, contents,
                   found_path_result, parseVars, serializeVars>>

\* The regular files of the filesystem: whether a String names one.
IsRegularFile(string) ==
    /\ string.components # <<>>
    /\ LET dir == Resolve(parent(string).value) IN
       /\ dir # None
       /\ dir.value \in DOMAIN fs
       /\ \E entry \in fs[dir.value].entries :
             entry.is_file /\ entry.name = string.components[Len(string.components)]

\* find_env, None arm: NotFound is returned.
find_env_NotFound ==
    /\ find_result = None
    /\ found_path_result = Pending
    /\ found_path_result' =
          Err(NotFound("Env file not found in current or any parent directories"))
    /\ UNCHANGED <<message, fs, cwd, directory_to_search, current_dir_path_buf, find_result,
                   contents, parseVars, serializeVars>>

\* find_env, Some arm: fs::read_to_string fails, and `?` returns its error.
find_env_Io ==
    /\ find_result.kind = "Some"
    /\ found_path_result = Pending
    /\ contents' = Err("io::Error")
    /\ found_path_result' = Err(From_IOError("io::Error"))
    /\ UNCHANGED <<message, fs, cwd, directory_to_search, current_dir_path_buf, find_result,
                   parseVars, serializeVars>>

\* find_env, Some arm: the file is read and process_dot_env runs on its
\* text; `?` returns the error of the parser, or the map is returned.
find_env_process ==
    /\ find_result.kind = "Some"
    /\ found_path_result = Pending
    /\ IsRegularFile(find_result.value)
    /\ \E text \in FileTexts :
          /\ contents' = Ok(text)
          /\ Process(text)
          /\ found_path_result' =
                IF process_dot_env(text).kind = "Err"
                THEN Err(From_EnvError(process_dot_env(text).error))
                ELSE Ok(process_dot_env(text).map)
    /\ UNCHANGED <<message, fs, cwd, directory_to_search, current_dir_path_buf, find_result,
                   serializeVars>>

\* The error find_env returned is displayed.
fmt ==
    /\ found_path_result.kind = "Err"
    /\ message = Pending
    /\ message' = FindEnvError_fmt(found_path_result.error)
    /\ UNCHANGED <<fs, cwd, directory_to_search, current_dir_path_buf, find_result,
                   contents, found_path_result, parseVars, serializeVars>>

FindNext ==
    \/ find_env_string_enter
    \/ find_env_string_panic
    \/ find_env_string_found
    \/ find_env_string_parent
    \/ find_env_string_none
    \/ find_env_NotFound
    \/ find_env_Io
    \/ find_env_process
    \/ fmt

\* find_env in every filesystem of Filesystems.
FindSpec == InitFind /\ [][FindNext]_vars

\* find_env when every call that can go on does go on.
FindFairSpec == FindSpec /\ WF_vars(FindNext)

\* ------------------------------------------------------------ texts

\* The tokens of the first j characters of a text, and the loop after them.
Prefix(text, j) == SubSeq(text, 1, j)
LexChars(text) == [i \in 1..Len(text) |-> LexChar(text[i])]
After(text, j) == Loop(InitLocals, LexChars(Prefix(text, j)), 1)

InQuotes(l) == l.in_single_quoted_string \/ l.in_double_quoted_string

\* The number of newline characters of a text, and the physical line (from
\* 1) of the character at offset pos of a text.
NewLines(text) == Cardinality({i \in 1..Len(text) : text[i] = NL})
PhysicalLine(text, pos) == 1 + NewLines(Prefix(text, pos - 1))

Max(S) == CHOOSE x \in S : \A y \in S : y <= x

\* The offsets after which a line of the text begins for the parser: the
\* start of the text, and every newline the loop took outside quotes.
LineStarts(text) ==
    {0} \cup {j \in {i \in 1..Len(text) : text[i] = NL} :
                LET r == After(text, j) IN r.ret = Pending /\ ~InQuotes(r.locals)}

\* The line the end of the text is on, with the newline that ends it when
\* that newline made the loop return, and the physical line it begins on.
LastLineStart(text) == Max(LineStarts(text))
LastLine(text) == SubSeq(text, LastLineStart(text) + 1, Len(text))
LastLineNumber(text) == PhysicalLine(text, LastLineStart(text) + 1)

\* A text without the newline it may end with.
Chomp(text) ==
    IF text # <<>> /\ text[Len(text)] = NL THEN Prefix(text, Len(text) - 1) ELSE text

AllIn(text, S) == \A i \in 1..Len(text) : text[i] \in S

\* A key: a non-empty run of letters.
IsKey(text) == text # <<>> /\ AllIn(text, Letters)

\* A quoted value: a non-empty body between two quote marks q that holds no
\* q.
IsQuoted(text, q) ==
    /\ Len(text) >= 3
    /\ text[1] = q
    /\ text[Len(text)] = q
    /\ \A i \in 2..(Len(text) - 1) : text[i] # q
Body(text) == SubSeq(text, 2, Len(text) - 1)

\* The assignment lines KEY=<q>body<q>: the offset of the `=`.
QuotedAssignmentAt(line, e) ==
    /\ e \in 2..Len(line)
    /\ line[e] = "="
    /\ IsKey(Prefix(line, e - 1))
    /\ \E q \in {SQ, DQ} : IsQuoted(SubSeq(line, e + 1, Len(line)), q)

\* The lines of a text as the file holds them: a line begins at the start
\* of the text and after every newline character, and runs to the next one.
PhysicalLineStarts(text) == {0} \cup {j \in 1..Len(text) : text[j] = NL}
PhysicalLineAt(text, j) ==
    LET ends == {k \in (j + 1)..Len(text) : text[k] = NL} IN
    SubSeq(text, j + 1,
           IF ends = {} THEN Len(text) ELSE (CHOOSE k \in ends : \A m \in ends : k <= m) - 1)

\* An unquoted or a quoted value.
IsValue(text) ==
    \/ text # <<>> /\ AllIn(text, Letters)
    \/ \E q \in {SQ, DQ} : IsQuoted(text, q)

\* KEY=VALUE, KEY='VALUE' or KEY="VALUE", with its key and its value.
IsAssignmentLine(line) ==
    \E e \in 2..Len(line) :
        /\ line[e] = "="
        /\ IsKey(Prefix(line, e - 1))
        /\ IsValue(SubSeq(line, e + 1, Len(line)))
AssignAt(line) == CHOOSE e \in 1..Len(line) : line[e] = "=" /\ IsKey(Prefix(line, e - 1))
KeyOfLine(line) == Prefix(line, AssignAt(line) - 1)
ValueOfLine(line) ==
    LET v == SubSeq(line, AssignAt(line) + 1, Len(line)) IN
    IF v[1] \in {SQ, DQ} THEN Body(v) ELSE v

\* Every line is blank, a comment or an assignment.
WellFormed(text) ==
    \A j \in PhysicalLineStarts(text) :
        LET line == PhysicalLineAt(text, j) IN
        \/ line = <<>>
        \/ line[1] = "#"
        \/ IsAssignmentLine(line)

\* One entry per key of the assignment lines, with the value of the last
\* line of that key.
ExpectedMap(text) ==
    LET assigns == {j \in PhysicalLineStarts(text) :
                      IsAssignmentLine(PhysicalLineAt(text, j))}
        keys == {KeyOfLine(PhysicalLineAt(text, j)) : j \in assigns}
        last(k) == Max({j \in assigns : KeyOfLine(PhysicalLineAt(text, j)) = k})
    IN  [k \in keys |-> ValueOfLine(PhysicalLineAt(text, last(k)))]

\* ------------------------------------------------------------ claims

\* C1: for every input whose lines are blank lines, comment lines and lines
\* KEY=VALUE, KEY='VALUE' or KEY="VALUE", process_dot_env returns Ok with a
\* map of exactly one entry per key, the value of the last line of the key.
C1_WellFormedInputParses ==
    (result # Pending /\ WellFormed(file_contents))
        => result = Ok(ExpectedMap(file_contents))

\* C2: a quoted value is stored verbatim.  When the line read last is
\* KEY=<q>body<q>, with a non-empty body without q, no error is returned,
\* the buffers hold KEY and body as the closing quote is read, and the map
\* holds body for KEY once Eof or a newline has ended the line (`line` is
\* the line the text ends on, `ended` the line a newline has just ended).
C2_QuotedValueVerbatim ==
    LET starts == LineStarts(file_contents)
        n == Len(file_contents)
        line == SubSeq(file_contents, Max(starts) + 1, n)
        ended == SubSeq(file_contents, Max(starts \ {n}) + 1, n - 1)
    IN  /\ \A e \in 1..Len(line) :
             QuotedAssignmentAt(line, e) =>
                LET key == Prefix(line, e - 1)
                    body == Body(SubSeq(line, e + 1, Len(line)))
                IN  /\ result.kind # "Err"
                    /\ result = Pending => current_key = key /\ current_value = body
                    /\ result.kind = "Ok" =>
                          key \in DOMAIN result.map /\ result.map[key] = body
        /\ (n > 0 /\ n \in starts) =>
             \A e \in 1..Len(ended) :
                QuotedAssignmentAt(ended, e) =>
                   LET key == Prefix(ended, e - 1)
                       body == Body(SubSeq(ended, e + 1, Len(ended)))
                   IN  key \in DOMAIN new_env_map /\ new_env_map[key] = body

\* A double-quoted value with `#` and the other quote in it was returned;
\* a single-quoted value with a newline in it was stored by the newline
\* after it.
C2_Witness ==
    /\ file_contents = <<"a", "=", DQ, "#", SQ, DQ>>
    /\ result = Ok(Insert(EmptyMap, <<"a">>, <<"#", SQ>>))

C2_WitnessNewline ==
    /\ file_contents = <<"b", "=", SQ, NL, SQ, NL>>
    /\ result = Pending
    /\ new_env_map = Insert(EmptyMap, <<"b">>, <<NL>>)

\* C3: blank lines and comment lines (a `#` at the start of the line, then
\* any characters up to the newline) add no entry and raise no error: a
\* text of such lines only parses to the empty map.
OnlyBlankOrCommentLines(text) ==
    \A j \in PhysicalLineStarts(text) :
        LET line == PhysicalLineAt(text, j) IN line = <<>> \/ line[1] = "#"

C3_BlankAndCommentLinesAreSkipped ==
    OnlyBlankOrCommentLines(file_contents) =>
        /\ result.kind # "Err"
        /\ new_env_map = EmptyMap

\* The tokens of the characters and Eof, and the token sequences of one or
\* two of them.
Tokens == {LexChar(c) : c \in Alphabet} \cup {TokEof}
FollowingTokens ==
    {<<t>> : t \in Tokens} \cup {<<t, TokEof>> : t \in {TokNewLine, TokAssignmentOperator}}

\* C4: parsing is fail-fast.  Once a token has made the loop return an
\* error, that error is what parse_dot_env returns for the tokens taken so
\* far followed by any further tokens, and no map is returned.
C4_FailFast ==
    result.kind = "Err" =>
        /\ parse_dot_env(tokens) = result
        /\ \A more \in FollowingTokens : parse_dot_env(tokens \o more) = result

\* The space after the key has been rejected: the tokens that would follow
\* it are never taken.
C4_Witness ==
    /\ file_contents = <<"a", " ">>
    /\ result = Err(UnexpectedToken("key or comment symbol", " ", 1, 3))

\* C5: every entry of the map has a non-empty key and a non-empty value,
\* in the map being built after every token and in the map returned.
NonEmptyEntries(map) == \A k \in DOMAIN map : k # <<>> /\ map[k] # <<>>

C5_EntriesNonEmpty ==
    /\ NonEmptyEntries(new_env_map)
    /\ result.kind = "Ok" => NonEmptyEntries(result.map)

\* A map with an entry was returned.
C5_Witness ==
    /\ result.kind = "Ok"
    /\ result.map = Insert(EmptyMap, <<"a", "b">>, <<"b">>)

\* The offset of the quote mark that opened the quote the end of the text
\* is in: the last character that took the loop from outside quotes into a
\* quote.
QuoteOpenedAt(text) ==
    Max({j \in 1..Len(text) :
           /\ After(text, j).ret = Pending
           /\ InQuotes(After(text, j).locals)
           /\ ~InQuotes(After(text, j - 1).locals)})

\* C6: Eof inside an unterminated quote returns UnclosedValue, with the
\* physical line on which the quote was opened.
C6_UnclosedValueAtOpeningLine ==
    (tokens # <<>> /\ tokens[Len(tokens)] = TokEof /\ InQuotes(Locals)) =>
        result = Err(UnclosedValue(
                        PhysicalLine(file_contents, QuoteOpenedAt(file_contents))))

\* C7: Eof outside quotes behaves like a final newline: a text whose parse
\* is outside quotes at its end, and that text followed by a newline, have
\* the same result.
C7_EofIsImplicitNewline ==
    (result = Pending /\ ~InQuotes(Locals)) =>
        process_dot_env(file_contents) = process_dot_env(Append(file_contents, NL))

\* A key, `=` and nothing else but spaces and a comment.
IsKeyAssignOnly(line) ==
    \E e \in 2..Len(line) :
        /\ line[e] = "="
        /\ IsKey(Prefix(line, e - 1))
        /\ \A i \in (e + 1)..Len(line) :
              \/ line[i] = " "
              \/ \E h \in (e + 1)..i :
                    /\ line[h] = "#"
                    /\ \A k \in (e + 1)..(h - 1) : line[k] = " "
        /\ AllIn(line, Alphabet \ {NL})

\* C8: a line of a key, `=` and nothing else, ended by a newline or by Eof
\* and optionally followed by a comment, returns MissingValue with the
\* number of that line.
C8_KeyAssignOnlyIsMissingValue ==
    (result # Pending /\ IsKeyAssignOnly(Chomp(LastLine(file_contents)))) =>
        result = Err(MissingValue(LastLineNumber(file_contents)))

\* C9: a line that starts with `=` returns MissingKey with the number of
\* that line, whatever follows the `=`: stated of the lines that a newline
\* or Eof has ended.
C9_LeadingAssignIsMissingKey ==
    (/\ result # Pending
     /\ tokens[Len(tokens)] \in {TokNewLine, TokEof}
     /\ LastLine(file_contents) # <<>>
     /\ LastLine(file_contents)[1] = "=") =>
        result = Err(MissingKey(LastLineNumber(file_contents)))

\* C10: a newline read outside quotes with a key in the key buffer, an
\* empty value buffer and no assignment seen returns FoundOnlyKey with the
\* number of the line it ends.
C10_BareKeyIsFoundOnlyKey ==
    LET n == Len(file_contents)
        before == After(file_contents, n - 1).locals
    IN  (/\ n > 0
         /\ tokens[Len(tokens)] = TokNewLine
         /\ ~InQuotes(before)
         /\ before.current_key # <<>>
         /\ before.current_value = <<>>
         /\ ~before.encountered_assignment) =>
            result = Err(FoundOnlyKey(PhysicalLine(file_contents, n)))

\* KEY='' or KEY="", then nothing else but spaces and a comment.
IsEmptyQuotedLine(line) ==
    \E e \in 2..(Len(line) - 2) :
        /\ line[e] = "="
        /\ IsKey(Prefix(line, e - 1))
        /\ line[e + 1] \in {SQ, DQ}
        /\ line[e + 2] = line[e + 1]
        /\ \A i \in (e + 3)..Len(line) :
              \/ line[i] = " "
              \/ \E h \in (e + 3)..i :
                    /\ line[h] = "#"
                    /\ \A k \in (e + 3)..(h - 1) : line[k] = " "
        /\ AllIn(line, Alphabet \ {NL})

\* C11: a line KEY='' or KEY="", with or without a comment after it, ended
\* by a newline or by Eof, returns MissingValue with the number of that
\* line, and no entry with an empty value is made.
C11_EmptyQuotedValueIsMissingValue ==
    (result # Pending /\ IsEmptyQuotedLine(Chomp(LastLine(file_contents)))) =>
        /\ result = Err(MissingValue(LastLineNumber(file_contents)))
        /\ NonEmptyEntries(new_env_map)


\* C12: keys are never quoted.  A single or double quote mark read while a
\* key is expected returns UnexpectedToken with the line the loop is on
\* (line_counter) as its line.
C12_QuoteWhileExpectingKey ==
    LET n == Len(file_contents)
        before == After(file_contents, n - 1).locals
    IN  (/\ n > 0
         /\ Len(tokens) = n
         /\ tokens[n] \in {TokSingleQuoteMark, TokDoubleQuoteMark}
         /\ before.expecting_key) =>
            /\ result.kind = "Err"
            /\ result.error.variant = "UnexpectedToken"
            /\ result.error.line = before.line_counter

\* A double quote mark at the start of the second line was rejected.
C12_Witness ==
    /\ file_contents = <<"a", "=", "b", NL, DQ>>
    /\ result = Err(UnexpectedToken("key or assignment operator",
                                    "double quote mark", 2, 0))

\* C13: in a text without quote marks, a space as the first character of a
\* line, the first line included, returns UnexpectedToken with the number
\* of that line as its line and 1 as its character.
C13_LeadingSpace ==
    LET n == Len(file_contents) IN
    (/\ n > 0
     /\ Len(tokens) = n
     /\ file_contents[n] = " "
     /\ n = 1 \/ file_contents[n - 1] = NL
     /\ AllIn(file_contents, Alphabet \ {SQ, DQ})) =>
        /\ result.kind = "Err"
        /\ result.error.variant = "UnexpectedToken"
        /\ result.error.line = PhysicalLine(file_contents, n)
        /\ result.error.character = 1

\* The key of a line: the characters before its first `=`, or the line
\* when it has none.
KeyPart(line) ==
    LET es == {e \in 1..Len(line) : line[e] = "="} IN
    IF es = {} THEN line ELSE Prefix(line, (CHOOSE e \in es : \A f \in es : e <= f) - 1)

\* A key of letters, digits and underscores that begins with a letter.
IsIdentifier(key) ==
    /\ key # <<>>
    /\ key[1] \in Letters
    /\ AllIn(key, Letters \cup Digits \cup {Underscore})

\* C14: keys hold letters, digits and underscores only and begin with a
\* letter: a text with a line whose key holds another character, or begins
\* with a digit or an underscore, returns an error.
C14_KeysAreIdentifiers ==
    (/\ result # Pending
     /\ \E j \in PhysicalLineStarts(file_contents) :
           LET key == KeyPart(PhysicalLineAt(file_contents, j)) IN
           key # <<>> /\ ~IsIdentifier(key)) =>
        result.kind = "Err"

\* C15: serialization round trip.  For every map whose values hold no
\* `=`, `#`, quote mark or newline, the text serialize_new_env writes parses
\* to Ok of that map.
C15_RoundTrip ==
    (/\ serialize_result.kind = "Ok"
     /\ result # Pending
     /\ \A k \in DOMAIN hash_map : AllIn(hash_map[k], ValueAlphabet \ {"=", "#", SQ, DQ, NL})) =>
        result = Ok(hash_map)

\* The directory the search starts in, when there is one, and the
\* directories from a directory up to the root.
StartDirectory ==
    IF directory_to_search # None
    THEN Resolve(directory_to_search.value)
    ELSE IF cwd # None THEN Some(cwd.value.components) ELSE None
ChainToRoot(dir) == {SubSeq(dir, 1, k) : k \in 0..Len(dir)}

\* A directory that can be read and holds a regular file *.env.
HasEnvFile(dir) ==
    /\ dir \in DOMAIN fs
    /\ fs[dir].readable
    /\ \E entry \in fs[dir].entries : entry.is_file /\ ends_with(entry.name, EnvSuffix)

\* What find_env_string returned is right: a regular file *.env of the
\* nearest directory from the start directory to the root that has one,
\* and None when no directory up to the root has one.
FoundNearest ==
    (find_result \notin {Pending, Panic} /\ StartDirectory # None) =>
        LET with == {d \in ChainToRoot(StartDirectory.value) : HasEnvFile(d)} IN
        IF with = {}
        THEN find_result = None
        ELSE /\ find_result # None
             /\ IsRegularFile(find_result.value)
             /\ ends_with(find_result.value.components[Len(find_result.value.components)],
                          EnvSuffix)
             /\ Len(Resolve(parent(find_result.value).value).value)
                   = Max({Len(d) : d \in with})

\* C16: find_env_string walks from the start directory towards the root
\* and always terminates: it returns a regular file *.env of the nearest
\* directory on that chain that has one, skipping the directories that
\* cannot be read, and None exactly when no directory up to the root has
\* such a file.
C16_FindsNearestEnvFile == []FoundNearest /\ <>(find_result # Pending)

\* C17: find_env returns the failure of the first stage of locate, read,
\* parse that fails, and otherwise the whole map: NotFound exactly when
\* find_env_string returned None; else Io with the error of the read when
\* the read failed; else Env with the error of process_dot_env on the text
\* read; else Ok of the map process_dot_env returned for that text.
C17_FirstFailingStage ==
    found_path_result # Pending =>
        /\ find_result \notin {Pending, Panic}
        /\ find_result = None <=>
              /\ found_path_result.kind = "Err"
              /\ found_path_result.error.variant = "NotFound"
        /\ find_result # None =>
              /\ contents # Pending
              /\ found_path_result =
                    IF contents.kind = "Err"
                    THEN Err(Io(contents.error))
                    ELSE IF process_dot_env(contents.map).kind = "Err"
                    THEN Err(Env(process_dot_env(contents.map).error))
                    ELSE Ok(process_dot_env(contents.map).map)

\* A file was located and read, and its text was rejected by the parser.
C17_Witness ==
    /\ find_result.kind = "Some"
    /\ contents = Ok(<<"a", "=">>)
    /\ found_path_result = Err(Env(MissingValue(1)))

\* The classification of a character, as a table.
Classification(c) ==
    IF c = "=" THEN TokAssignmentOperator
    ELSE IF c = " " THEN TokWhitespace
    ELSE IF c = "#" THEN TokComment
    ELSE IF c = NL THEN TokNewLine
    ELSE IF c = DQ THEN TokDoubleQuoteMark
    ELSE IF c = SQ THEN TokSingleQuoteMark
    ELSE TokCharacter(c)

\* C18: lex_dot_env returns, for a text of n characters, n + 1 tokens: the
\* i-th is the classification of the i-th character, and the last is Eof,
\* the only Eof.  The tokens the loop has taken are the first of them.
C18_LexerOneTokenPerCharacter ==
    LET n == Len(file_contents)
        lexed == lex_dot_env(file_contents)
    IN  /\ Len(lexed) = n + 1
        /\ \A i \in 1..n : lexed[i] = Classification(file_contents[i])
        /\ \A i \in 1..(n + 1) : lexed[i] = TokEof <=> i = n + 1
        /\ Len(tokens) <= n + 1
        /\ tokens = SubSeq(lexed, 1, Len(tokens))

\* The loop has taken every token of a text of five classes of characters.
C18_Witness ==
    /\ file_contents = <<"a", "=", DQ, "#", NL, DQ>>
    /\ tokens = <<TokCharacter("a"), TokAssignmentOperator, TokDoubleQuoteMark,
                  TokComment, TokNewLine, TokDoubleQuoteMark, TokEof>>

\* C19: after every token of every text, at most one of
\* in_single_quoted_string and in_double_quoted_string is true.
C19_AtMostOneQuoteFlag ==
    ~(in_single_quoted_string /\ in_double_quoted_string)

\* C20: after every token of every text, expecting_key and expecting_value
\* are not both true.
C20_KeyAndValueNotBothExpected ==
    ~(expecting_key /\ expecting_value)

\* A value is expected after KEY=, and a key again on the next line.
C20_Witness ==
    /\ file_contents = <<"a", "=", "b", NL>>
    /\ After(file_contents, 2).locals.expecting_value
    /\ ~After(file_contents, 2).locals.expecting_key
    /\ expecting_key
    /\ ~expecting_value

\* C21: a comment after a completed pair is discarded.  For a text K=V #c
\* on one line, with K=V an assignment and c any characters but a newline,
\* the text followed by a newline parses to what K=V followed by a newline
\* parses to; and while the comment is read no error is returned and the
\* key and value buffers stay as K=V left them.
C21_CommentIsDiscarded ==
    \A j \in 1..(Len(file_contents) - 1) :
        (/\ file_contents[j] = " "
         /\ file_contents[j + 1] = "#"
         /\ IsAssignmentLine(Prefix(file_contents, j - 1))
         /\ AllIn(file_contents, Alphabet \ {NL})) =>
            /\ process_dot_env(Append(file_contents, NL))
                  = process_dot_env(Append(Prefix(file_contents, j - 1), NL))
            /\ result.kind # "Err"
            /\ current_key = After(file_contents, j - 1).locals.current_key
            /\ current_value = After(file_contents, j - 1).locals.current_value

\* C22: after every newline taken outside quotes without an error the
\* buffers are empty, expecting_key is true, expecting_value, in_a_comment,
\* encountered_assignment and both quote flags are false, and line_counter
\* is one more than before: but for the map, line_counter and
\* character_counter (0), the locals are those parse_dot_env starts with,
\* whatever the lines before held.
C22_NewLineResets ==
    LET n == Len(file_contents)
        before == After(file_contents, n - 1).locals
    IN  (/\ n > 0
         /\ Len(tokens) = n
         /\ tokens[n] = TokNewLine
         /\ ~InQuotes(before)
         /\ result = Pending) =>
            /\ current_key = <<>> /\ current_value = <<>>
            /\ expecting_key /\ ~expecting_value
            /\ ~in_a_comment /\ ~encountered_assignment
            /\ ~in_single_quoted_string /\ ~in_double_quoted_string
            /\ line_counter = before.line_counter + 1
            /\ Locals = [InitLocals EXCEPT !.new_env_map = new_env_map,
                                           !.line_counter = line_counter,
                                           !.character_counter = 0]

\* The newline after a pair and a comment has reset the locals.
C22_Witness ==
    /\ file_contents = <<"a", "=", "b", " ", "#", NL>>
    /\ result = Pending
    /\ line_counter = 2
    /\ new_env_map = Insert(EmptyMap, <<"a">>, <<"b">>)
    /\ After(file_contents, 5).locals.in_a_comment
    /\ After(file_contents, 5).locals.encountered_assignment

\* The token at offset j of a text ended the accumulation of a value: a
\* space outside quotes and comments after an unquoted value, or the quote
\* mark that closed a quoted value.
EndsValueAt(text, j) ==
    LET before == After(text, j - 1).locals
        after == After(text, j)
    IN  /\ after.ret = Pending
        /\ ~before.in_a_comment
        /\ \/ /\ text[j] = " "
              /\ ~InQuotes(before)
              /\ before.expecting_value
              /\ before.current_value # <<>>
           \/ /\ text[j] \in {SQ, DQ}
              /\ InQuotes(before)
              /\ ~InQuotes(after.locals)

\* C23: once the accumulation of a value has ended on a line, nothing more
\* is appended to the value on that line, and a Character read before any
\* comment marker returns UnexpectedToken.
C23_EndedValueIsClosed ==
    LET n == Len(file_contents) IN
    \A j \in 1..(n - 1) :
        (/\ EndsValueAt(file_contents, j)
         /\ \A k \in (j + 1)..n : file_contents[k] # NL) =>
            /\ current_value = After(file_contents, j).locals.current_value
            /\ (/\ Len(tokens) = n
                /\ LexChar(file_contents[n]).kind = "Character"
                /\ \A k \in (j + 1)..(n - 1) : file_contents[k] # "#") =>
                   /\ result.kind = "Err"
                   /\ result.error.variant = "UnexpectedToken"

\* C24: a single or double quote mark read outside quotes when the value
\* buffer holds characters returns UnexpectedToken with the line the loop
\* is on (line_counter) as its line.
C24_QuoteAfterUnquotedValue ==
    LET n == Len(file_contents)
        before == After(file_contents, n - 1).locals
    IN  (/\ n > 0
         /\ Len(tokens) = n
         /\ tokens[n] \in {TokSingleQuoteMark, TokDoubleQuoteMark}
         /\ ~InQuotes(before)
         /\ before.current_value # <<>>) =>
            /\ result.kind = "Err"
            /\ result.error.variant = "UnexpectedToken"
            /\ result.error.line = before.line_counter

\* A single quote mark after the unquoted b of the second line was
\* rejected.
C24_Witness ==
    /\ file_contents = <<"#", NL, "a", "=", "b", SQ>>
    /\ result = Err(UnexpectedToken("value, whitespace, newline, or comment",
                                    "single quotation mark", 2, 3))

\* C25: the branch `key empty, value non-empty -> MissingKey` of the
\* NewLine arm is never taken: no newline is read outside quotes with an
\* empty key buffer, a non-empty value buffer and no assignment recorded.
C25_DefensiveBranchUnreachable ==
    LET n == Len(file_contents)
        before == After(file_contents, n - 1).locals
    IN  ~(/\ n > 0
          /\ Len(tokens) = n
          /\ tokens[n] = TokNewLine
          /\ ~InQuotes(before)
          /\ before.current_key = <<>>
          /\ before.current_value # <<>>
          /\ ~before.encountered_assignment)

\* The offsets of the newlines of a text that the loop took inside a quote,
\* before the token at offset pos.
NewLinesInQuotes(text, pos) ==
    {j \in 1..Len(text) :
        /\ j < pos
        /\ text[j] = NL
        /\ InQuotes(After(text, j - 1).locals)}

\* C26: line_counter is 1 plus the number of newlines taken outside quotes
\* so far; a newline read inside a quote is appended to the value and
\* leaves line_counter as it is; the line of every error is line_counter,
\* which is the physical line of the token that failed less the newlines
\* read inside quotes before it.
C26_LineCounterSkipsQuotedNewLines ==
    LET n == Len(file_contents)
        before == After(file_contents, n - 1).locals
    IN  /\ line_counter = 1 + Cardinality(LineStarts(file_contents) \ {0})
        /\ (n > 0 /\ Len(tokens) = n /\ file_contents[n] = NL /\ InQuotes(before)) =>
              /\ result = Pending
              /\ current_value = Append(before.current_value, NL)
              /\ line_counter = before.line_counter
        /\ result.kind = "Err" =>
              /\ result.error.line = line_counter
              /\ result.error.line =
                    PhysicalLine(file_contents, Len(tokens))
                       - Cardinality(NewLinesInQuotes(file_contents, Len(tokens)))

\* A quote opened on the third line of the file was left open, after a
\* quoted value that spans the first two lines: the error carries line 2.
C26_Witness ==
    /\ file_contents = <<"a", "=", SQ, NL, SQ, NL, "=", SQ>>
    /\ result = Err(UnclosedValue(2))
    /\ PhysicalLine(file_contents, 8) = 3

\* The stage a FindEnvError is of, as the prefix of its message.
StagePrefix(err) ==
    CASE err.variant = "Io" -> "I/O Error: "
      [] err.variant = "Env" -> "Env parsing error: "
      [] err.variant = "NotFound" -> "FindEnv error: "

\* C27: the Display message of a FindEnvError names the stage that failed:
\* it begins with `I/O Error` for Io, with `Env parsing error` for Env and
\* with `FindEnv error` for NotFound.
C27_DisplayNamesTheStage ==
    message # Pending => message[1] = StagePrefix(found_path_result.error)

\* The state machine and the function agree on every input.
ResultIsProcessDotEnv ==
    /\ result # Pending => result = parse_dot_env(tokens)
    /\ result.kind = "Ok" => result = process_dot_env(file_contents)

====
